SPECIFICATION Spec
CONSTANTS
    ann = ann
    bob = bob
    admin = admin
    clerk = clerk
    manage = manage
    work = work
    all = all
    Names = {ann, bob}
    Boot = ann
    ApiKey = apiKey
    RoleKeys = {admin, clerk}
    Builtin = {admin}
    Admin = admin
    NonAscii = {}
    Perms = {manage, work}
    Manage = manage
    Everything = all
    Passwords = {secret}
    GrantChoices <- Rights
    OverrideLists <- Repeating
    Reusable = {}
    MaxVersion = 2
    MaxCookies = 1
    MaxInflight = 1
INVARIANTS
    SessionKeepsItsRights
CHECK_DEADLOCK FALSE
