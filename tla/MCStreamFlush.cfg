SPECIFICATION Spec
CONSTANTS
    r1 = r1
    Requests = {r1}
    Jobs = {j1}
    RequestOf <- MCRequestOf
    Cancels = {}
    NumComponents = 1
    Streams = {s1}
INVARIANT FlushedBeforeDone
