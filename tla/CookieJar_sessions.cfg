CONSTANTS
 Sessions={"d","s"}
 Default="d"
 Frames={"f","g"}
 Schemes={"https"}
 Host="a"
 Subdomain="w"
 Names={"n"}
 Keepers={}
 None=None
 MaxWrites=2
 MaxCalls=1
SPECIFICATION Spec
INVARIANTS SessionsAreApart
CHECK_DEADLOCK FALSE
