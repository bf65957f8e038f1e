SPECIFICATION Spec
CONSTANT Layouts <- InnerLayouts
INVARIANT WriteCreatesAll
