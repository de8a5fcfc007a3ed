SPECIFICATION MCSpec
CONSTANTS
    crew = crew
    office = office
    Desks <- TwoDesks
    Role <- Roles
    MaxReports = 1
    MaxFaults = 1
    Tries = 3
INVARIANTS
    NothingIsSkipped

    
