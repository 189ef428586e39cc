CONSTANTS
  Capacity = 4
  MaxPush = 9
SPECIFICATION FairSpec
INVARIANTS NoSlotRace PopsInOrder OccupancyExact
PROPERTIES ImplementsBoundedFifo EveryPushIsPopped ProducerGetsThrough
