CONSTANTS
    about = about
    aboutSlash = aboutSlash
    news = news
    home = home
    admin = admin
    Clients = {alice}
    Anonymous = Anonymous
    Paths = {about, aboutSlash}
    Cacheable = {about, aboutSlash}
    Gated = {}
    Keys = {about, aboutSlash}
    EntryOf <- AliasEntries
    NoKey = NoKey
    Nodes = {about}
    NodeOf <- AliasNodes
    Data = {d1, d2}
    NoPath = NoPath
    NoReply = NoReply
SPECIFICATION Spec
INVARIANT
    OneResponsePerNode
