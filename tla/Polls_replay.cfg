CONSTANTS
    Handlers = {h1, h2}
    Senders = {}
    Voters = {me}
    Me = me
    Created = {a}
    Added = {c}
    Ballots = {{a}}
    Selectable = 0
    MaxPage = 1
    MaxNow = 1
SPECIFICATION Spec
PROPERTY OptionsOnlyGrow
