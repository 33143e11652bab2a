\* Two connections, requests cut in the url, a header name and value, at
\* the blank line, inside the body.
CONSTANTS
    Conns = {c1, c2}
    Workers = {w1, w2}
    Requests <- SmallRequests
    Routes <- SmallRoutes
    Cuts = {4, 14, 17, 22, 26, 29}
    MaxBuffer = 36
    HTTP_MAX_HEADER_SIZE = 60
    ULLONG_MAX = 255
    HTTP_RESPONSE_HTML_MAX = 4
    ResponseSizes = {2, 5}
SPECIFICATION Spec
INVARIANTS DispatchedIsSent OneAnswer
PROPERTY WholeIsAnswered
\* clients stop when they have sent their requests
CHECK_DEADLOCK FALSE
