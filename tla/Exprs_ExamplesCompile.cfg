SPECIFICATION Spec
CONSTANT Programs <- ExamplePrograms
INVARIANT ExamplesCompile
