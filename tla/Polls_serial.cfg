CONSTANTS
    Handlers = {h1}
    Senders = {}
    Voters = {me, v1}
    Me = me
    Created = {a}
    Added = {c}
    Ballots = {{}, {a}, {c}, {a, c}}
    Selectable = 1
    MaxPage = 3
    MaxNow = 2
SPECIFICATION Spec
INVARIANTS SelectedAreOptions
PROPERTY PageResolvesItsVotes
