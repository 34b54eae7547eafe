\* One visitor with one pass of two calls, a pass that nobody bought and a
\* tool that the pass is not for; two
\* GETs under way, so that the later one can be answered first.
CONSTANTS
  Me = me
  Throwaway = nobody
  Slugs = {tool, other}
  Tool = tool
  Visitors = {me}
  Keys = {k1}
  Quota = 2
  MaxGets = 2
SPECIFICATION PageSpec
INVARIANT PageInv
INVARIANT AuditConfirmsVisitor
PROPERTY PageCatchesUp
