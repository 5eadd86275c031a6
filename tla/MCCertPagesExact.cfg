CONSTANTS
    about = about
    aboutSlash = aboutSlash
    news = news
    home = home
    admin = admin
    Clients = {alice, bob}
    Anonymous = Anonymous
    Paths = {about, news, home, admin}
    Cacheable = {about, news, home, admin}
    Gated = {admin}
    Keys = {about, news, admin}
    EntryOf <- ExactEntries
    NoKey = NoKey
    Nodes = {about, news, admin}
    NodeOf <- OwnNodes
    Data = {d1, d2}
    NoPath = NoPath
    NoReply = NoReply
SPECIFICATION Spec
INVARIANT
    Inductive
PROPERTIES
    AnswersVerify
    GatedServedToMembers
    NextQueryIsCertified
