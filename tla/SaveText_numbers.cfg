SPECIFICATION TextSpec
CONSTANTS
    Guid <- MCGuid
    OnFile <- MCOnFile
    Coord <- MCCoord
    AsRead <- MCAsRead
    CutAsRead <- MCCutAsRead
    OldRec <- MCOldRec
    Place <- MCPlace
    Look <- MCLook
    NoRecord <- MCNoRecord
    Slots = 2
    MaxSaves = 2
    MaxChanges = 1
INVARIANTS
    BadFieldIsDefault
