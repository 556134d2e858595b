SPECIFICATION SharedSpec
CONSTANTS
    Agents = {main, worker}
    Callers = {main, worker}
    Mains = {main}
    Tasks = {app, t1, t2, t3}
    App = app
    NoAgent = NoAgent
    NoTask = NoTask
    MaxSteps = 2
    MaxIterations = 2
    Commands = {c1}
    Blank = Blank
    MaxBrowsers = 2
INVARIANT FinishedPlansEnd
CHECK_DEADLOCK FALSE
