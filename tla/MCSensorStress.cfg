SPECIFICATION SensorSpec
CONSTANTS
    cheese = cheese
    Sensors = {cheese}
    manual = {cheese}
    steps <- StressSteps
    StartingValues <- StressStarts
    Word <- SmallWord
    AirLimit = 1
PROPERTY ManualSensorsEnd
