SPECIFICATION CVSpec
CONSTANTS
    Tasks = {t1, t2, t3}
PROPERTIES
    BroadcastWakesAll
