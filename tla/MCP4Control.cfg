\* The beacon is switched off and on again; three revisions, changes and faults in all.
CONSTANTS
    Edits <- MCEdits
    MaxChanges = 1
    MaxFaults = 2
    MaxEvents = 3
SPECIFICATION FairSpec
INVARIANTS ToldIsTrue NumberFitsContents OneRole
PROPERTIES RevisionTold
