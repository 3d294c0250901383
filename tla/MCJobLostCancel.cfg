SPECIFICATION Spec
CONSTANTS
    r1 = r1
    Requests = {r1}
    Jobs = {j1}
    RequestOf <- MCRequestOf
    Cancels = {c1}
    NumComponents = 1
    Streams = {}
INVARIANT CancelStops
