\* Six pipelines, up to agent, prompt, exec; liveness.
SPECIFICATION FairSpec
CONSTANTS
    Children = {c1, c2}
    Users = {u1}
    Run = Run
    Worker = Worker
    Definitions <- MCFew
    MaxDefers = 0
    MaxFaults = 0
    MaxRestarts = 1
PROPERTY RunsProceed
CHECK_DEADLOCK FALSE
