SPECIFICATION Spec
CONSTANTS
  Plugins <- MCPlugins
  Specs = {s1, s2}
  Broken = Broken
  Nobody = Nobody
  MaxChanges = 3
  MaxFaults = 1
INVARIANTS TypeOK NeverOrphaned ReadyRegistered ReportsCurrent
SYMMETRY SpecSymmetry
