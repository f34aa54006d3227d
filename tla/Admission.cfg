SPECIFICATION Spec
CONSTANTS
    User = {ann, bob}
    Session = {s, t}
    Invite = {i}
    Claim = {c1, c2}
    Random = {r}
    MaxSeats = 2
CONSTRAINT SeatBound
INVARIANTS
    TypeOK
    WinnerMatchesRow
    WinnerCanJoin
    GuestsHoldAnInvite
PROPERTIES
    ImplementsInvitations
SYMMETRY Symmetry
