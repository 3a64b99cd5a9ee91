CONSTANTS
  Tasks = {f1, f2, f3}
  Owner = owner
  Callers = {c1, c2}
  Channels = {ch1}
  WakeupChannel = wakeupChannel
SPECIFICATION Spec
INVARIANTS IndInv NoLostWakeup QuitWakes
PROPERTIES BatchClosed ImplementsTaskQueue TimeoutRunsTheRest RunsPromptly QuitStops
