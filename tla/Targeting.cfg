SPECIFICATION SpecApart
CONSTANTS
  Octet = 4
  Addresses <- MCAddresses
  Buckets = 4
  BucketOf <- MCBuckets
  Fleet <- MCFleet
  Groups <- MCGroups
  Canaries <- MCCanaries
  Text = Text
  NoAddress = NoAddress
  NoKey = NoKey
  Invalid = Invalid
INVARIANTS VersionsAreNumbers SelectorsAreSets StatsAreDelivery ListedAreServed
PROPERTIES SpreadsOnly
