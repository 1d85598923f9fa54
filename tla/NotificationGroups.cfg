SPECIFICATION Spec
CONSTANTS
  Agents <- ThreeAgents
  GroupOf <- TwoClusters
  Offers <- OwnServices
  Labels = {"app", "zone"}
  MaxChanges = 3
  MaxRestarts = 2
INVARIANTS TypeOK AnnouncedIsCreated CreatedIsAnnounced
PROPERTIES NotificationsSettle
CHECK_DEADLOCK FALSE
