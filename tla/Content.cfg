SPECIFICATION Spec
CONSTANTS
    Tags = {"oc", "layer"}
    Forms <- MCForms
    MaxForms = 3
    MaxFailed = 1
    MaxOpen = 2
    MaxMarks = 3
INVARIANTS DeviceBalanced MarksMatch PaintedInLayers
PROPERTIES FormKeepsState Closes
