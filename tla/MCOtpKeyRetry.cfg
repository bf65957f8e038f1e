SPECIFICATION Spec
INVARIANT InitLeavesLocked
