\* Three users, two handlers at a time, and one unread message.
SPECIFICATION Spec
CONSTANTS
    alice = alice
    bob = bob
    carol = carol
    r1 = r1
    r2 = r2
    User <- MCUser
    Creator = carol
    MemberIds = {alice}
    Req <- MCReq
    Calls <- MCCalls
    Mobile = {bob}
    MaxUnread = 1
INVARIANTS MembershipSettled FanoutReaches FanoutSound UnreadCovers
