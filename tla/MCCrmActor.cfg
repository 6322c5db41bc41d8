SPECIFICATION Spec
CONSTANTS
  p1 = p1
  p2 = p2
  l1 = l1
  l2 = l2
  e1 = e1
  Nobody = Nobody
  Proc = {p1, p2}
  Lead = {l1}
  Email = {e1}
  EmailOf <- SharedEmail
  Ops = {"import", "qualify", "disqualify", "convert", "move", "win", "lost", "done", "cancel", "list"}
  MaxCommands = 2
INVARIANT AuditNamesItsActor
CHECK_DEADLOCK FALSE
