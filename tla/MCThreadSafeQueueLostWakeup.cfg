\* No call has a deadline, as in a run without a timeout.
SPECIFICATION FairSpec
CONSTANTS
    Producers = {p1}
    Consumers = {main}
    Values = {v1}
    Nodes = {n1, n2}
    Null = Null
    TimedCalls = {FALSE}
PROPERTIES
    PushWakesConsumer
