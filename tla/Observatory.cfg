SPECIFICATION FairSpec
CONSTANTS
    None = None
    r1 = r1
    r2 = r2
    n1 = n1
    Run <- OneRun
    Name <- OneName
    Script <- LeftoverScript
PROPERTIES SlotComesBack StoppingEnds ResetConverges
