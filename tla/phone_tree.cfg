\* Two workspaces of a session, on the page index.vue and on code.vue.
SPECIFICATION Spec
CONSTANTS
  Modes = {"relay"}
  Workspaces = {a, b}
  MaxOpen = 2
  None = None
INVARIANTS TypeOK TreeIsOfWorkspace
