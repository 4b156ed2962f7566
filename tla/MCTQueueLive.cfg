\* Delivery and termination of the calls under the threads' fairness.
SPECIFICATION FairSpec
CONSTANTS
    Writers = {w1}
    Readers = {r1, r2}
    Data = {d1}
    DataNum = 2
    NoThread = NoThread
PROPERTIES EveryElementDelivered WriteReturns BoundedReadReturns
