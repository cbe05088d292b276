SPECIFICATION Spec
CONSTANTS
    None = None
    Unparsable = Unparsable
    q1 = q1
    q2 = q2
    Request <- Requests
    Message <- Messages
    Config <- Configs
    Trusted <- Proxies
    Segment <- Segments
SYMMETRY RequestSymmetry
INVARIANTS InFlightExact IdentityFromToken ChargedToItsClient
