\* Two own messages, two in the conversation, pages of one.
SPECIFICATION Spec
CONSTANTS
    Content = {a, b}
    PageSize = 1
    MaxSend = 2
    MaxMsg = 2
INVARIANTS ShownOnce Paged
PROPERTIES ReceiptsUp
SYMMETRY Texts
