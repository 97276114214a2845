SPECIFICATION Spec
CONSTANTS
  Debounce = 3
  Timeout = 9
  Keepalive = 3
INVARIANTS
  FreshPress
  PressNotMissed
  CancelPrompt
