\* Every program of three instructions, every form, with no loss; three chosen
\* programs with every cause of lost coverage and a user breakpoint.
SPECIFICATION Spec
CONSTANTS
    N = 3
    MaxHeld = 2
    MaxSweep <- SweepOf
    UserAddrs <- UsersIn
    Losses <- LossesIn
    Programs <- AllPrograms
INVARIANTS
    TypeOK
    Coverage
    FrontierClosed
    SweepSound
    ArmedInEngine
