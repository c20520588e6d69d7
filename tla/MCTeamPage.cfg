CONSTANTS
    Ann = Ann
    Bob = Bob
    People = {Ann, Bob}
    Me = Ann
    Nobody = Nobody
    Founding <- AnnAndBob
    Offered = {"OWNER", "ADMIN", "AGENT"}
    Invites = {"first", "second"}
    MaxMembers = 4
    MaxInvitations = 3
    MaxFaults = 1
SPECIFICATION Spec
CONSTRAINT RolesOrInvitations
INVARIANTS
    OwnRightsAreShown
    
CHECK_DEADLOCK FALSE
