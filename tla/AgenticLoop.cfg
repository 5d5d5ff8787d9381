SPECIFICATION FairLoopSpec
CONSTANTS
    agent = agent
    client = client
    Callers = {agent, client}
    Agents = {agent}
    Calls <- MCCalls
    Tools <- MCTools
    Misnamed = {"record_finding", "complete_agent_session"}
    Statuses = {"completed", "timeout", "active"}
    MaxCalls = 3
    MaxFaults = 1
    MaxIterations = 2
INVARIANTS
    TypeOK
    
    SequenceOrder
    OneHypothesis
    AnnouncedIsStored
    MetricsPurged
    
PROPERTIES
    CompletedIsFinal
    ImplementsLedger
    EveryLoopReports
CHECK_DEADLOCK FALSE
