-------------------------------- MODULE MCPlan --------------------------------
EXTENDS Plan
LOCAL INSTANCE FiniteSetsExt

\* Documents three levels deep: tables with the keys a and b, arrays of up to
\* two elements.
Leaves == {Scalar, Array(<< >>), Array(<<Scalar>>), Table(<< >>), Table([x \in {"a"} |-> Scalar]), Table([x \in {"b"} |-> Scalar])}
Inner == Leaves \cup {Array(<<v, Scalar>>) : v \in Leaves} \cup {Table([x \in {"a"} |-> v]) : v \in Leaves}
Docs == Inner \cup {Table([x \in {"a"} |-> v]) : v \in Inner}
          \cup {Table([x \in {"a", "b"} |-> IF x = "a" THEN v ELSE Scalar]) : v \in Inner}

RECURSIVE Levels(_)
Levels(n) == IF Children(n) = {} THEN 0 ELSE 1 + Max({Levels(c) : c \in Children(n)})
Heights == [n \in Docs |-> Levels(n)]
===============================================================================
