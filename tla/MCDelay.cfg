SPECIFICATION Spec
CONSTANTS
  Params = {p1, p2, p3}
  Counts = {1, 2, 3, 4}
INVARIANTS RefsCountFiled TwoAgree
PROPERTY PassesOn
