CONSTANT Flights = 3
SPECIFICATION FairSpec
INVARIANT OutcomeIsHonest
PROPERTY Ends
