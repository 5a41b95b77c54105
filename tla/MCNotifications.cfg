SPECIFICATION NotificationsSpec
CONSTANTS
    s1 = s1
    s2 = s2
    Unset = Unset
    Subs = {s1, s2}
    OneShots = {s2}
    Stored = {s1}
    MaxMail = 2
    PageCap = 1
    MaxSeen = 1
    MaxMishaps = 1
INVARIANTS
    NothingSkipped
    RepeatsArePaidFor
CHECK_DEADLOCK FALSE
