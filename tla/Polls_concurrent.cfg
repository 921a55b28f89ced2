CONSTANTS
    Handlers = {h1, h2}
    Senders = {cli}
    Voters = {me}
    Me = me
    Created = {a}
    Added = {}
    Ballots = {{}, {a}}
    Selectable = 0
    MaxPage = 1
    MaxNow = 3
SPECIFICATION Spec
INVARIANTS NewestVoteWins
