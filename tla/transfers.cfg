SPECIFICATION Spec
CONSTANTS
    Players = {p1, p2}
    Parties = {{p1, p2}}
    Hubs = {h1, h2}
    Flaky = {h1}
    Game = Game
    None = None
    MaxCommands = 2
    Capacity = 1
    MaxFaults = 1
PROPERTIES NoCompetingCommand NeverOverbooked Evacuated
CHECK_DEADLOCK FALSE
