CONSTANT Hash = {1, 2, 3, 4}
SPECIFICATION DagSpec
INVARIANT DagInv
