\* Four objects, removed by anyone at any moment, by a destructor or explicitly.
\* The program stops when a null pointer is dereferenced.
CONSTANTS
  Objects = {o1, o2, o3, o4}
  NULL = NULL
SYMMETRY Interchangeable
SPECIFICATION Spec
INVARIANTS TypeOK LinksMatch IteratorOnList VisitsAll
CHECK_DEADLOCK FALSE
