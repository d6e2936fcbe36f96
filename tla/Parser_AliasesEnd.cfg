SPECIFICATION Spec
CONSTANT Programs <- MCPrograms
PROPERTY AliasesEnd
