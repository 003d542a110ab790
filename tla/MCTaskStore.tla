------------------------------ MODULE MCTaskStore ------------------------------
EXTENDS TaskStore

\* The third task depends on the other two.
ThirdNeedsBoth == {<<3, 1>>, <<3, 2>>}
================================================================================
