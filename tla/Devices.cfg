SPECIFICATION DevicesSpec
CONSTANTS
  first = first
  second = second
  third = third
  NoId = NoId
  Ids = {first, second, third}
  MaxSwitches = 4
  MaxKills = 2
  StoreFails = FALSE
  home = home
  cottage = cottage
  homeId = homeId
  cottageId = cottageId
  phone = phone
  tablet = tablet
  gateLink = gateLink
  doorLink = doorLink
  guest = guest
  firstInvite = firstInvite
  secondInvite = secondInvite
  gate = gate
  door = door
  one = one
  another = another
  Calls = {one, another}
  Entries = {home, cottage}
  IdsOf <- EachOneId
  NoDevice = NoDevice
  Phones = {phone, tablet}
  Links = {gateLink, doorLink}
  Grants = {guest}
  Invites = {firstInvite, secondInvite}
  Account = Account
  ScopeOf <- TwoIntercoms
  MaxStoredInvites = 1
  MaxRestarts = 1
  Users = {one, another}
  MaxAnswers = 3
  MaxOperations = 2
  Platforms <- SomePlatforms
  Intercoms = {door}
  PrivateCameras = {gate}
  MaxUpdates = 2
  MaxRuntimes = 2
  RingTime = 3
  MaxClock = 9
  MaxAdds = 2
  mainCard = mainCard
  keysCard = keysCard
  devicesCard = devicesCard
  probeDevice = probeDevice
  MainCard = mainCard
  MoreCards = {keysCard}
  Extension = devicesCard
  MaxVersion = 2
  MaxStarts = 3
  MaxUserEdits = 1
  ProbeDevice = probeDevice
  OtherDevices = {phone, tablet}
  MaxNoise = 1
SYMMETRY Symmetric
CONSTRAINT OneFamily
INVARIANTS
  OneDevice LeftoversAreAnnounced RemovalLeavesNothing
  RevokedMeansGone NothingIsMissing ProbesAreHonest DevicesInv
PROPERTIES ImplementsOwnDevice OwnDevicesAreSpared TokensLast
CHECK_DEADLOCK FALSE
