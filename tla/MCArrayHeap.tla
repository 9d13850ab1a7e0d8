------------------------------ MODULE MCArrayHeap ------------------------------
\* Arrays of one and two dimensions, rows and arrays without elements among them.
EXTENDS ArrayHeap

MCShapes == {<<n>> : n \in 0..3} \cup {<<m, n>> : m, n \in 0..2} \cup {<<3, 1>>}
===============================================================================
