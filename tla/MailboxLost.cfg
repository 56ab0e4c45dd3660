SPECIFICATION MailboxSpec
CONSTANTS
    MaxPosts = 3
    Relaxed = TRUE
INVARIANT NoLostRequest
