\* Three users, a group of two of them, two messages, pages of one and two.
SPECIFICATION Spec
CONSTANTS
    User <- MCUser
    Fresh = 7
    Group = 8
    GroupMembers = {2, 3}
    MaxMsg = 2
    PageMax = 2
    Chats <- MCChats
    Opens <- MCOpens
    Reads <- MCReads
    Deletes <- MCDeletes
INVARIANTS NothingForgotten PagesExact AllTold
PROPERTIES DeletedByMember DeletedStaysDeleted
