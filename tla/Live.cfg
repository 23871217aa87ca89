SPECIFICATION Spec
CONSTANTS
  s1 = s1
  s2 = s2
  acknowledge = acknowledge
  reject = reject
  Stranger = stranger
  Supplier <- MCSupplier
  Handler = {h1}
  Decisions <- MCDecisions
  Lines <- MCLines
  Catalogues <- MCCatalogues
SYMMETRY Symmetry
INVARIANTS TrackerTrue TrackerOrdered ReadsBetween RfqsCausal ListsServed DecisionStands ReportServed ReportReconciles
