SPECIFICATION Spec
CONSTANTS
  System = sys  w1 = w1  Workspaces = {sys, w1}
  s1 = s1  Slugs = {s1, s2}  SeedSlug = s1
  TypeIds = {t1, t2}  SeedType = t1
  TemplateIds = {p1, p2}  SeedTemplate = p1
  VersionIds = {v1, v2, v3, v4}  SeedVersion = v1  SeedDrafts = {v2}
  b1 = b1  b2 = b2  Bodies = {b1, b2}  SeedBody = b1
  es = es  esCO = esCO  Locales = {es, esCO}  SeedLocale = es  NoLocale = NoLocale
  Admins = {a1, a2}  MaxRequests = 2
  Resolvers = {r1}
  Keys <- MCKeys  PrefixOf <- MCPrefixOf  DefaultLocaleOf <- MCDefaultLocaleOf
INVARIANTS ServedIsPublished KillSwitchInvalidates
PROPERTIES PublishedIsFrozen CacheConverges
CHECK_DEADLOCK FALSE
