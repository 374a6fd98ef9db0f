SPECIFICATION Spec
CONSTANTS
  Sector = 2
  MaxBlock = 4
  PageSize = 8
  Width = 5
  Numbers <- SomeNumbers
INVARIANTS STypeOK SizesAgree CreatedWhole
PROPERTY ToolChecksSuffice
