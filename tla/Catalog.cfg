SPECIFICATION Spec
CONSTANTS
    Table = {t, u}
    Rid = {r1, r2}
    Key = {1, 2}
    Free = Free
    Absent = Absent
    Torn = Torn
    MaxLog = 2
INVARIANTS CatalogTypeOK ServesShown 
