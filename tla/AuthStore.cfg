SPECIFICATION Spec
CONSTANTS
    ann = ann
    bob = bob
    admin = admin
    clerk = clerk
    manage = manage
    work = work
    all = all
    Names = {ann, bob}
    Boot = ann
    ApiKey = apiKey
    RoleKeys = {admin, clerk}
    Builtin = {admin}
    Admin = admin
    NonAscii = {}
    Perms = {manage, work}
    Manage = manage
    Everything = all
    Passwords = {old, new}
    GrantChoices <- Rights
    OverrideLists <- Lists
    Reusable = {}
    MaxVersion = 3
    MaxCookies = 1
    MaxInflight = 2
SYMMETRY Secrets
INVARIANTS
    NothingDangles
    SessionKeepsItsRights
PROPERTIES
    RevokedStaysRevoked
    DeleteKeepsAnAdmin
CHECK_DEADLOCK FALSE
