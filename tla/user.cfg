\* A name of each kind, so that rows are registered in every order, one edit,
\* and two handlers at work: two first logins with one name cross, and a reader
\* crosses an edit.
CONSTANTS
    Phones = {"phone"}
    OpenIds = {"wechat"}
    Emails = {"mail"}
    MaxEdits = 1
    NumSlots = 2
SPECIFICATION FairSpec
INVARIANTS
    TypeOK
    LoginsAgree
PROPERTIES
    ProfilesConverge
